---- MODULE Spec2Model ----
(***************************************************************************)
(* Document store of santistebanc/db.                                      *)
(*                                                                         *)
(* The repository holds two generations of the same application:           *)
(*   app = "docs"  : node:http server (backend/src/server.ts) over         *)
(*                   DocService (table docs);                              *)
(*   app = "nodes" : Express server over NodeRepository (table nodes) and  *)
(*                   the retrying Database layer (backend/src/db.ts).      *)
(* A behaviour runs one of the two; every action is one whole request      *)
(* handler, from the parsed body to the response, including the single SQL *)
(* statement it issues.  In specification Spec the store is available      *)
(* (every statement succeeds at its first attempt) and requests are served *)
(* one at a time: the response is read before the next request is sent.    *)
(* SpecSearch adds the search and findByTag requests; in SpecConcurrent    *)
(* requests overlap.                                                       *)
(*                                                                         *)
(* Ids are generated (uuidv4 / gen_random_uuid) and modelled as a fresh    *)
(* counter; id 0 stands for any id string a client sends that was never    *)
(* issued.  Optional values (undefined in the source) are sets with at     *)
(* most one element: {} is undefined.                                      *)
(***************************************************************************)
EXTENDS Integers, Sequences, FiniteSets, TLC

\* number of ids the generator hands out
MaxDocs == 2
\* last tick of the clock that stamps created_at
MaxClock == 1

VARIABLES
    app,        \* "docs" or "nodes": which server is running
    store,      \* the table: a set of rows
    nextId,     \* next id the generator returns
    clock,      \* current time
    resp,       \* last request and its response
    before,     \* the table as it was when the last request arrived
    deleted,    \* history: issued ids whose delete reported success
    createdDoc, \* history: id -> response body of its create, while no update
                \* or delete has been addressed to it
    inflight,   \* requests received whose statement has not run yet
    lastWrite,  \* history: id -> response of the last update that ran on it
    schedule,   \* the retry schedule of the Database layer in use
    call,       \* the store call in progress: its attempts and delays
    hostname,   \* the kind of host the connection string names
    pool,       \* db.ts `pool`: 0 for null, else the Pool object
    resolvedConnectionString, \* db.ts variable of that name
    pools,      \* the Pool objects constructed: their connection strings
    getPoolCalls, \* caller -> the getPool() call it is in
    http,       \* the request the node:http callback is handling
    ui          \* the state of the App component and its requests in flight

\* requests that can be inside getPool() at once
MaxCallers == 2
Callers == 1..MaxCallers

\* the state of the server and its table
crudVars == <<app, store, nextId, clock, resp, before, deleted, createdDoc,
              inflight, lastWrite>>
\* the state of a store call of the Database layer
retryVars == <<schedule, call>>
\* the module state of db.ts and the getPool() calls in progress
poolVars == <<hostname, pool, resolvedConnectionString, pools, getPoolCalls>>
\* the request of the node:http server and its response
serverVars == <<http>>
\* the frontend
uiVars == <<ui>>
\* what the request handlers of the CRUD servers leave alone
layerVars == <<retryVars, poolVars, serverVars, uiVars>>
\* what a store call leaves alone
offRetry == <<poolVars, serverVars, uiVars>>
\* what getPool() leaves alone
offPool == <<crudVars, retryVars, serverVars, uiVars>>
\* what the node:http callback leaves alone
offServer == <<retryVars, poolVars, uiVars>>
\* what the frontend leaves alone
offUi == <<crudVars, retryVars, poolVars, serverVars>>
vars == <<crudVars, layerVars>>

-----------------------------------------------------------------------------
(* JavaScript / JSON values of a request body *)

Str(s) == [t |-> "string", v |-> s]
Num(s) == [t |-> "number", v |-> s]

\* label as found in a parsed body: undefined, "", "a", or the number 7
LabelInputs == {{}, {Str("")}, {Str("a")}, {Num("7")}}
\* data: undefined or {x: 1}; Obj0 is the {} the handlers put for undefined
Obj0 == "obj{}"
ObjX == "obj{x:1}"
DataInputs == {{}, {ObjX}}
\* tags: undefined or ["Urgent"]
TagInputs == {{}, {<<"Urgent">>}}

Bodies == [label : LabelInputs, data : DataInputs, tags : TagInputs,
           malformed : {FALSE}]
MalformedBody == [label |-> {}, data |-> {}, tags |-> {}, malformed |-> TRUE]
\* bodies sent to server.ts: its schemas drop a tags property, so none is sent
DocBodies == {b \in Bodies : b.tags = {}} \cup {MalformedBody}
NoBody == [label |-> {}, data |-> {}, tags |-> {}, malformed |-> FALSE]

\* JavaScript truthiness of an optional body field (used by `!label`)
Truthy(opt) == \E x \in opt : ~(x.t = "string" /\ x.v = "")

\* `data || {}` and `tags || []`: every object and array is truthy
OrDefault(opt, dflt) == IF opt = {} THEN dflt ELSE CHOOSE x \in opt : TRUE

\* JSON.stringify of a data value
JSONStringify(o) == IF o = ObjX THEN "{\"x\":1}" ELSE "{}"
\* the jsonb column: the text is parsed and kept in canonical form (data::text)
JsonbIn(text) == IF text = "{\"x\":1}" THEN "{\"x\": 1}" ELSE "{}"
\* node-postgres hands a jsonb column back as a parsed value
JsonbOut(col) == IF col = "{\"x\": 1}" THEN ObjX ELSE Obj0
\* a query parameter bound to a TEXT column is sent in its text form
PgText(x) == x.v
\* String.prototype.toLowerCase / SQL LOWER on the strings of the model
toLowerCase(s) ==
    CASE s = "Urgent" -> "urgent"
      [] s = "URGENT" -> "urgent"
      [] s = "A" -> "a"
      [] s = "X" -> "x"
      [] s = "U" -> "u"
      [] s = "R" -> "r"
      [] OTHER -> s

-----------------------------------------------------------------------------
(* The table *)

\* mutant: the WHERE clause is lost
SelectById_noWhere(S, id) == S

\* WHERE id = $1
SelectById(S, id) == {r \in S : r.id = id}
\* rows[0] of a result set: undefined when the set is empty
FirstRow(rows) == IF rows = {} THEN {} ELSE {CHOOSE r \in rows : TRUE}

\* mutant: ORDER BY created_at ASC
OrderByCreatedAtAsc(S) ==
    {q \in [1..Cardinality(S) -> S] :
        /\ \A i, j \in 1..Cardinality(S) : i # j => q[i] # q[j]
        /\ \A i \in 1..(Cardinality(S) - 1) : q[i].created_at <= q[i+1].created_at}

\* ORDER BY created_at DESC: every order of the rows that is non-increasing in
\* created_at (rows with equal created_at come in any order)
OrderByCreatedAtDesc(S) ==
    {q \in [1..Cardinality(S) -> S] :
        /\ \A i, j \in 1..Cardinality(S) : i # j => q[i] # q[j]
        /\ \A i \in 1..(Cardinality(S) - 1) : q[i].created_at >= q[i+1].created_at}


-----------------------------------------------------------------------------
(* DocService (table docs) *)

rowToDoc(row) ==
    [id |-> row.id, label |-> row.label, tags |-> row.tags,
     data |-> JsonbOut(row.data), created_at |-> row.created_at]

\* INSERT INTO docs (label, tags, data) ... RETURNING; id and created_at are
\* the column defaults gen_random_uuid() and NOW()
DocService_create(S, input, id, now) ==
    LET row == [id |-> id,
                label |-> input.label,
                tags |-> OrDefault(input.tags, <<>>),
                data |-> JsonbIn(JSONStringify(OrDefault(input.data, Obj0))),
                created_at |-> now]
    IN [store |-> S \cup {row}, outcome |-> "ok", docs |-> <<rowToDoc(row)>>]

DocService_getAll(S) ==
    {[store |-> S, outcome |-> "ok",
      docs |-> [i \in 1..Len(q) |-> rowToDoc(q[i])]] :
        q \in OrderByCreatedAtDesc(S)}

DocService_getById(S, id) ==
    LET row == FirstRow(SelectById(S, id))
    IN [store |-> S,
        outcome |-> IF row = {} THEN "null" ELSE "ok",
        docs |-> [i \in 1..Cardinality(row) |->
                     rowToDoc(CHOOSE x \in row : TRUE)]]

\* mutant: the UPDATE also writes the created_at column
DocService_SetClauses_stampsCreatedAt(r, input) ==
    [r EXCEPT
        !.label = IF input.label # {} THEN CHOOSE x \in input.label : TRUE ELSE @,
        !.tags = IF input.tags # {} THEN CHOOSE x \in input.tags : TRUE ELSE @,
        !.data = IF input.data # {}
                 THEN JsonbIn(JSONStringify(CHOOSE x \in input.data : TRUE))
                 ELSE @,
        !.created_at = @ + 1]

\* the dynamic UPDATE: one SET clause per field that is not undefined
DocService_SetClauses(r, input) ==
    [r EXCEPT
        !.label = IF input.label # {} THEN CHOOSE x \in input.label : TRUE ELSE @,
        !.tags = IF input.tags # {} THEN CHOOSE x \in input.tags : TRUE ELSE @,
        !.data = IF input.data # {}
                 THEN JsonbIn(JSONStringify(CHOOSE x \in input.data : TRUE))
                 ELSE @]

\* UPDATE docs SET ... WHERE id = $n RETURNING ...
DocService_dynamicUpdate(S, input) ==
    LET hit == SelectById(S, input.id)
        rows == {DocService_SetClauses(r, input) : r \in hit}
        row == FirstRow(rows)
    IN [store |-> (S \ hit) \cup rows,
        outcome |-> IF row = {} THEN "null" ELSE "ok",
        docs |-> [i \in 1..Cardinality(row) |->
                     rowToDoc(CHOOSE x \in row : TRUE)]]

\* mutant: no read-only branch; an omitted data is written as {} and omitted
\* tags as [], the way the Express PUT route fills them in
DocService_update_fillsDefaults(S, input) ==
    DocService_dynamicUpdate(S,
        [input EXCEPT !.data = IF @ = {} THEN {Obj0} ELSE @,
                      !.tags = IF @ = {} THEN {<<>>} ELSE @])

DocService_update(S, input) ==
    IF input.label = {} /\ input.data = {} /\ input.tags = {}
    THEN DocService_getById(S, input.id)
    ELSE DocService_dynamicUpdate(S, input)

\* mutant: DELETE FROM docs without the WHERE clause
DocService_delete_everyRow(S, id) ==
    [store |-> {}, outcome |-> "ok", docs |-> <<>>]

\* mutant: the statement removes nothing and success is still reported
DocService_delete_keepsRow(S, id) ==
    [store |-> S, outcome |-> "ok", docs |-> <<>>]

\* DELETE FROM docs WHERE id = $1, then `return true`
DocService_delete(S, id) ==
    [store |-> S \ SelectById(S, id), outcome |-> "ok", docs |-> <<>>]

-----------------------------------------------------------------------------
(* node:http server over DocService *)

docToJson(doc) ==
    [id |-> doc.id, label |-> doc.label, data |-> doc.data,
     created_at |-> doc.created_at]

\* Schema.decodeUnknown of a struct whose label is a Schema.String, required
\* or optional; data is Schema.Unknown; other properties are dropped
DecodeOk(body, labelRequired) ==
    /\ labelRequired => body.label # {}
    /\ \A x \in body.label : x.t = "string"

\* a rejected parseBody is a defect: catchAll does not see it and the catch
\* of runPromise answers; a ParseError is a failure answered by catchAll
ServerFailure(S, body) ==
    [store |-> S, status |-> 500,
     outcome |-> IF body.malformed THEN "defect" ELSE "ParseError",
     body |-> <<>>]

PostApiDocs(S, body, id, now) ==
    IF body.malformed \/ ~DecodeOk(body, TRUE)
    THEN ServerFailure(S, body)
    ELSE LET input == [label |-> PgText(CHOOSE x \in body.label : TRUE),
                       data |-> body.data, tags |-> {}]
             r == DocService_create(S, input, id, now)
         IN [store |-> r.store, status |-> 201, outcome |-> r.outcome,
             body |-> [i \in 1..Len(r.docs) |-> docToJson(r.docs[i])]]

GetApiDocs(S) ==
    {[store |-> r.store, status |-> 200, outcome |-> r.outcome,
      body |-> [i \in 1..Len(r.docs) |-> docToJson(r.docs[i])]] :
        r \in DocService_getAll(S)}

GetApiDocsId(S, id) ==
    LET r == DocService_getById(S, id)
    IN [store |-> r.store,
        status |-> IF r.docs = <<>> THEN 404 ELSE 200,
        outcome |-> r.outcome,
        body |-> [i \in 1..Len(r.docs) |-> docToJson(r.docs[i])]]

PutApiDocsId(S, id, body) ==
    IF body.malformed \/ ~DecodeOk(body, FALSE)
    THEN ServerFailure(S, body)
    ELSE LET input == [id |-> id,
                       label |-> {PgText(x) : x \in body.label},
                       data |-> body.data, tags |-> {}]
             r == DocService_update(S, input)
         IN [store |-> r.store,
             status |-> IF r.docs = <<>> THEN 404 ELSE 200,
             outcome |-> r.outcome,
             body |-> [i \in 1..Len(r.docs) |-> docToJson(r.docs[i])]]

DeleteApiDocsId(S, id) ==
    LET r == DocService_delete(S, id)
    IN [store |-> r.store, status |-> 200, outcome |-> r.outcome, body |-> <<>>]

-----------------------------------------------------------------------------
(* NodeRepository (table nodes) *)

rowToNode(row) ==
    [id |-> row.id, label |-> row.label, data |-> JsonbOut(row.data),
     tags |-> row.tags, created_at |-> row.created_at]

\* id = uuidv4(), now = new Date(), then one INSERT ... RETURNING
NodeRepository_create(S, label, data, tags, id, now) ==
    LET row == [id |-> id,
                label |-> PgText(label),
                tags |-> tags,
                data |-> JsonbIn(JSONStringify(data)),
                created_at |-> now]
    IN [store |-> S \cup {row}, outcome |-> "ok", docs |-> <<rowToNode(row)>>]

NodeRepository_read(S, id) ==
    LET result == FirstRow(SelectById(S, id))
    IN [store |-> S,
        outcome |-> IF result = {} THEN "NodeNotFound" ELSE "ok",
        docs |-> [i \in 1..Cardinality(result) |->
                     rowToNode(CHOOSE x \in result : TRUE)]]

\* mutant: the row is answered as updated but the write is lost
NodeRepository_update_lostWrite(S, id, label, data, tags) ==
    LET hit == SelectById(S, id)
        rows == {[r EXCEPT !.label = PgText(label),
                           !.data = JsonbIn(JSONStringify(data)),
                           !.tags = tags] : r \in hit}
        result == FirstRow(rows)
    IN [store |-> S,
        outcome |-> IF result = {} THEN "NodeNotFound" ELSE "ok",
        docs |-> [i \in 1..Cardinality(result) |->
                     rowToNode(CHOOSE x \in result : TRUE)]]

\* UPDATE nodes SET label = $1, data = $2, tags = $3 WHERE id = $4
NodeRepository_update(S, id, label, data, tags) ==
    LET hit == SelectById(S, id)
        rows == {[r EXCEPT !.label = PgText(label),
                           !.data = JsonbIn(JSONStringify(data)),
                           !.tags = tags] : r \in hit}
        result == FirstRow(rows)
    IN [store |-> (S \ hit) \cup rows,
        outcome |-> IF result = {} THEN "NodeNotFound" ELSE "ok",
        docs |-> [i \in 1..Cardinality(result) |->
                     rowToNode(CHOOSE x \in result : TRUE)]]

\* DELETE FROM nodes WHERE id = $1 RETURNING id
NodeRepository_delete(S, id) ==
    LET result == SelectById(S, id)
    IN [store |-> S \ result,
        outcome |-> IF result = {} THEN "NodeNotFound" ELSE "ok",
        docs |-> <<>>]

NodeRepository_list(S) ==
    {[store |-> S, outcome |-> "ok",
      docs |-> [i \in 1..Len(q) |-> rowToNode(q[i])]] :
        q \in OrderByCreatedAtDesc(S)}

-----------------------------------------------------------------------------
(* Express server over NodeRepository *)

\* Effect.runPromise: a failed effect rejects the promise with a FiberFailure
\* that wraps the failure; it is not the failure object itself
runWithLayer(r) ==
    IF r.outcome = "ok" THEN "resolved" ELSE "FiberFailure"

\* catch (error): `error instanceof NodeNotFound` ? 404 : 500
CatchStatus(error, handlesNotFound) ==
    IF handlesNotFound /\ error = "NodeNotFound" THEN 404 ELSE 500

BadRequest(S) ==
    [store |-> S, status |-> 400, outcome |-> "rejected", body |-> <<>>]

PostApiNodes(S, body, id, now) ==
    IF ~Truthy(body.label)
    THEN BadRequest(S)
    ELSE LET r == NodeRepository_create(S, CHOOSE x \in body.label : TRUE,
                      OrDefault(body.data, Obj0), OrDefault(body.tags, <<>>),
                      id, now)
             p == runWithLayer(r)
         IN [store |-> r.store,
             status |-> IF p = "resolved" THEN 201 ELSE CatchStatus(p, FALSE),
             outcome |-> r.outcome,
             body |-> IF p = "resolved" THEN r.docs ELSE <<>>]

GetApiNodesId(S, id) ==
    LET r == NodeRepository_read(S, id)
        p == runWithLayer(r)
    IN [store |-> r.store,
        status |-> IF p = "resolved"
                   THEN (IF r.docs = <<>> THEN 404 ELSE 200)
                   ELSE CatchStatus(p, TRUE),
        outcome |-> r.outcome,
        body |-> IF p = "resolved" THEN r.docs ELSE <<>>]

PutApiNodesId(S, id, body) ==
    IF ~Truthy(body.label)
    THEN BadRequest(S)
    ELSE LET r == NodeRepository_update(S, id, CHOOSE x \in body.label : TRUE,
                      OrDefault(body.data, Obj0), OrDefault(body.tags, <<>>))
             p == runWithLayer(r)
         IN [store |-> r.store,
             status |-> IF p = "resolved" THEN 200 ELSE CatchStatus(p, TRUE),
             outcome |-> r.outcome,
             body |-> IF p = "resolved" THEN r.docs ELSE <<>>]

DeleteApiNodesId(S, id) ==
    LET r == NodeRepository_delete(S, id)
        p == runWithLayer(r)
    IN [store |-> r.store,
        status |-> IF p = "resolved" THEN 204 ELSE CatchStatus(p, TRUE),
        outcome |-> r.outcome,
        body |-> <<>>]

\* GET /api/nodes without tag and search parameters
GetApiNodes(S) ==
    {[store |-> r.store, status |-> 200, outcome |-> r.outcome,
      body |-> r.docs] : r \in NodeRepository_list(S)}

-----------------------------------------------------------------------------
(* Text matching of the search statements.  A text is the sequence of its  *)
(* characters.                                                             *)

\* the characters of the strings a column or a parameter can hold
Chars(s) ==
    CASE s = "" -> <<>>
      [] s = "{}" -> <<"{", "}">>
      [] s = "{\"x\": 1}" -> <<"{", "\"", "x", "\"", ":", " ", "1", "}">>
      [] s = "Urgent" -> <<"U", "r", "g", "e", "n", "t">>
      [] s = "urgent" -> <<"u", "r", "g", "e", "n", "t">>
      [] OTHER -> <<s>>

\* LOWER / toLowerCase, character by character
LowerText(t) == [i \in 1..Len(t) |-> toLowerCase(t[i])]

\* String.prototype.trim
RECURSIVE TrimStart(_)
TrimStart(t) == IF t # <<>> /\ Head(t) = " " THEN TrimStart(Tail(t)) ELSE t
RECURSIVE TrimEnd(_)
TrimEnd(t) ==
    IF t # <<>> /\ t[Len(t)] = " " THEN TrimEnd(SubSeq(t, 1, Len(t) - 1)) ELSE t
Trim(t) == TrimEnd(TrimStart(t))

\* text LIKE pattern: % stands for any run of characters, _ for any one
\* character, every other character for itself
RECURSIVE Like(_, _)
Like(t, p) ==
    IF p = <<>> THEN t = <<>>
    ELSE IF Head(p) = "%" THEN Like(t, Tail(p)) \/ (t # <<>> /\ Like(Tail(t), p))
    ELSE /\ t # <<>>
         /\ Head(p) = "_" \/ Head(p) = Head(t)
         /\ Like(Tail(t), Tail(p))

\* `%${query}%`
Wrap(q) == <<"%">> \o q \o <<"%">>

\* text ILIKE pattern
ILike(t, p) == Like(LowerText(t), LowerText(p))

\* the words the text-search parser finds: maximal runs of letters and
\* digits, lowercased
AlphaNum == {"a", "A", "x", "X", "u", "U", "r", "R", "g", "e", "n", "t", "1", "7"}
RECURSIVE WordsFrom(_, _)
WordsFrom(t, cur) ==
    IF t = <<>> THEN (IF cur = <<>> THEN {} ELSE {cur})
    ELSE IF Head(t) \in AlphaNum
    THEN WordsFrom(Tail(t), Append(cur, toLowerCase(Head(t))))
    ELSE (IF cur = <<>> THEN {} ELSE {cur}) \cup WordsFrom(Tail(t), <<>>)
\* the 'english' configuration drops stop words; its stemmer leaves the words
\* of the model as they are
StopWords == {<<"a">>}
Lexemes(t) == WordsFrom(t, <<>>) \ StopWords
\* to_tsvector('english', text) @@ plainto_tsquery('english', q): every
\* lexeme of the query is in the text; a query without lexemes matches nothing
TsMatch(t, q) == Lexemes(q) # {} /\ Lexemes(q) \subseteq Lexemes(t)

-----------------------------------------------------------------------------
(* Search and findByTag *)

\* `request.limit ?? 50`
DefaultLimit == 50
\* LIMIT 100 of NodeRepository.search
NodesSearchLimit == 100

\* LIMIT n applied to an ordered result
Limit(q, n) == SubSeq(q, 1, IF n < Len(q) THEN n ELSE Len(q))

\* ORDER BY CASE ... END, created_at DESC over the rows M, rank being the value
\* of the CASE for each row
OrderByRankCreatedAtDesc(M, rank) ==
    {q \in [1..Cardinality(M) -> M] :
        /\ \A i, j \in 1..Cardinality(M) : i # j => q[i] # q[j]
        /\ \A i \in 1..(Cardinality(M) - 1) :
              \/ rank[q[i]] < rank[q[i+1]]
              \/ /\ rank[q[i]] = rank[q[i+1]]
                 /\ q[i].created_at >= q[i+1].created_at}

\* WHERE LOWER(label) LIKE $1 OR LOWER(data::text) LIKE $1
\*    OR EXISTS (SELECT 1 FROM unnest(tags) t WHERE LOWER(t) LIKE $1)
DocService_searchWhere(r, pattern) ==
    \/ Like(LowerText(Chars(r.label)), pattern)
    \/ Like(LowerText(Chars(r.data)), pattern)
    \/ \E i \in 1..Len(r.tags) : Like(LowerText(Chars(r.tags[i])), pattern)

\* CASE WHEN LOWER(label) LIKE $1 THEN 0 ELSE 1 END
DocService_searchRank(r, pattern) ==
    IF Like(LowerText(Chars(r.label)), pattern) THEN 0 ELSE 1

\* request.query is trimmed; an empty query lists the table, any other is
\* matched as a lowercased LIKE pattern; limit is request.limit ?? 50
DocService_search(S, request) ==
    LET queryText == Trim(request.query)
        limit == IF request.limit = {} THEN DefaultLimit
                 ELSE CHOOSE n \in request.limit : TRUE
        searchPattern == Wrap(LowerText(queryText))
        M == {r \in S : DocService_searchWhere(r, searchPattern)}
        rank == [r \in M |-> DocService_searchRank(r, searchPattern)]
        rows == IF queryText = <<>>
                THEN {Limit(q, limit) : q \in OrderByCreatedAtDesc(S)}
                ELSE {Limit(q, limit) : q \in OrderByRankCreatedAtDesc(M, rank)}
    IN {[store |-> S, outcome |-> "ok",
         docs |-> [i \in 1..Len(q) |-> rowToDoc(q[i])]] : q \in rows}

\* POST /api/docs/search: the body is decoded by SearchRequestSchema, whose
\* query is a required string
PostApiDocsSearch(S, body) ==
    IF body.malformed \/ body.query = {}
    THEN {ServerFailure(S, body)}
    ELSE {[store |-> r.store, status |-> 200, outcome |-> r.outcome,
           body |-> [i \in 1..Len(r.docs) |-> docToJson(r.docs[i])]] :
            r \in DocService_search(S,
                     [query |-> CHOOSE q \in body.query : TRUE,
                      limit |-> body.limit])}

\* WHERE to_tsvector('english', label || ' ' || COALESCE(data::text, ''))
\*         @@ plainto_tsquery('english', $1)
\*    OR label ILIKE $2 OR data::text ILIKE $2
NodeRepository_searchWhere(r, query, pattern) ==
    \/ TsMatch(Chars(r.label) \o <<" ">> \o Chars(r.data), query)
    \/ ILike(Chars(r.label), pattern)
    \/ ILike(Chars(r.data), pattern)

NodeRepository_searchRank(r, query, pattern) ==
    IF ILike(Chars(r.label), pattern) THEN 1
    ELSE IF TsMatch(Chars(r.label), query) THEN 2
    ELSE 3

NodeRepository_search(S, query) ==
    LET pattern == Wrap(query)
        M == {r \in S : NodeRepository_searchWhere(r, query, pattern)}
        rank == [r \in M |-> NodeRepository_searchRank(r, query, pattern)]
    IN {[store |-> S, outcome |-> "ok",
         docs |-> [i \in 1..Len(Limit(q, NodesSearchLimit)) |-> rowToNode(q[i])]] :
            q \in OrderByRankCreatedAtDesc(M, rank)}

\* SELECT * FROM nodes WHERE $1 = ANY(tags) ORDER BY created_at DESC, with
\* tag.toLowerCase() for $1
NodeRepository_findByTag(S, tag) ==
    LET M == {r \in S : \E i \in 1..Len(r.tags) : r.tags[i] = toLowerCase(tag)}
    IN {[store |-> S, outcome |-> "ok",
         docs |-> [i \in 1..Len(q) |-> rowToNode(q[i])]] :
            q \in OrderByCreatedAtDesc(M)}

\* GET /api/nodes?search=..&tag=..: `if (tag)` and `if (search)` test the
\* parameters for truthiness; every other parameter of the URL is ignored
GetApiNodesQuery(S, search, tag) ==
    LET rs == IF tag # {} /\ tag # {""}
              THEN NodeRepository_findByTag(S, CHOOSE x \in tag : TRUE)
              ELSE IF search # {} /\ search # {<<>>}
              THEN NodeRepository_search(S, CHOOSE x \in search : TRUE)
              ELSE NodeRepository_list(S)
    IN {[store |-> r.store, status |-> 200, outcome |-> r.outcome,
         body |-> r.docs] : r \in rs}

-----------------------------------------------------------------------------
(* The state machine: one action per request *)

Idle ==
    [op |-> "none", via |-> "none", id |-> 0, req |-> NoBody, status |-> 0,
     outcome |-> "none", body |-> <<>>]

NoWrite == [body |-> <<>>, raced |-> FALSE]
\* no store call is in progress
NoCall == [phase |-> "idle", op |-> "none", id |-> 0, bad |-> FALSE,
           attempts |-> 0, slept |-> <<>>, last |-> "none",
           rejected |-> FALSE, rows |-> {}]

\* no getPool() call is in progress
NoGetPool == [pc |-> "idle", i |-> 0, lookups |-> 0, failed |-> 0,
              waited |-> <<>>, got |-> 0]

\* no request has reached the node:http callback
NoHttp == [pc |-> "idle", route |-> "none", down |-> FALSE, swallowed |-> {},
           layer |-> "none", writeHead |-> 0, end |-> 0, status |-> 0,
           outcome |-> "none"]

\* no request has been issued and nothing is displayed
NoRequest == [n |-> 0, api |-> "none", query |-> <<>>]
\* the App component before it is mounted
NoApp == [mounted |-> FALSE, searchQuery |-> <<>>, timer |-> FALSE,
          issued |-> 0, latest |-> NoRequest, pending |-> {}, failed |-> {},
          docs |-> NoRequest]

Init ==
    /\ app \in {"docs", "nodes"}
    /\ store = {}
    /\ nextId = 1
    /\ clock = 0
    /\ resp = Idle
    /\ before = store
    /\ deleted = {}
    /\ createdDoc = [i \in 1..MaxDocs |-> <<>>]
    /\ inflight = {}
    /\ lastWrite = [i \in 1..MaxDocs |-> NoWrite]
    /\ schedule = "unset"
    /\ call = NoCall
    /\ hostname = "unset"
    /\ pool = 0
    /\ resolvedConnectionString = "null"
    /\ pools = <<>>
    /\ getPoolCalls = [c \in Callers |-> NoGetPool]
    /\ http = NoHttp
    /\ ui = NoApp

\* ids a client can send: the ids issued so far, and 0 for any other string
IdInputs == 0..(nextId - 1)

\* the response is recorded together with the request and the table it met
Answer(op, via, id, req, r) ==
    /\ store' = r.store
    /\ before' = store
    /\ resp' = [op |-> op, via |-> via, id |-> id, req |-> req,
                status |-> r.status, outcome |-> r.outcome, body |-> r.body]
    /\ deleted' = IF op = "delete" /\ r.status \in {200, 204} /\ id # 0
                  THEN deleted \cup {id} ELSE deleted
    /\ createdDoc' =
         IF op = "create" /\ r.status = 201
         THEN [createdDoc EXCEPT ![id] = r.body]
         ELSE IF op \in {"update", "delete"} /\ id \in DOMAIN createdDoc
         THEN [createdDoc EXCEPT ![id] = <<>>]
         ELSE createdDoc

\* mutant: the generator hands out the same id again
Created_reusesId(body, r) ==
    /\ Answer("create", "http", IF r.store # store THEN nextId ELSE 0, body, r)
    /\ nextId' = nextId
    /\ UNCHANGED <<app, clock, inflight, lastWrite, layerVars>>

\* a create draws the next id and the current time; the id is spent when the
\* row is inserted
Created(body, r) ==
    /\ Answer("create", "http", IF r.store # store THEN nextId ELSE 0, body, r)
    /\ nextId' = IF r.store # store THEN nextId + 1 ELSE nextId
    /\ UNCHANGED <<app, clock, inflight, lastWrite, layerVars>>

ReqPostApiDocs ==
    /\ app = "docs"
    /\ resp = Idle
    /\ nextId <= MaxDocs
    /\ \E body \in DocBodies :
         Created(body, PostApiDocs(store, body, nextId, clock))

ReqGetApiDocs ==
    /\ app = "docs"
    /\ resp = Idle
    /\ \E r \in GetApiDocs(store) : Answer("list", "http", 0, NoBody, r)
    /\ UNCHANGED <<app, nextId, clock, inflight, lastWrite, layerVars>>

ReqGetApiDocsId ==
    /\ app = "docs"
    /\ resp = Idle
    /\ \E id \in IdInputs :
         Answer("get", "http", id, NoBody, GetApiDocsId(store, id))
    /\ UNCHANGED <<app, nextId, clock, inflight, lastWrite, layerVars>>

ReqPutApiDocsId ==
    /\ app = "docs"
    /\ resp = Idle
    /\ \E id \in IdInputs, body \in DocBodies :
         Answer("update", "http", id, body, PutApiDocsId(store, id, body))
    /\ UNCHANGED <<app, nextId, clock, inflight, lastWrite, layerVars>>

ReqDeleteApiDocsId ==
    /\ app = "docs"
    /\ resp = Idle
    /\ \E id \in IdInputs :
         Answer("delete", "http", id, NoBody, DeleteApiDocsId(store, id))
    /\ UNCHANGED <<app, nextId, clock, inflight, lastWrite, layerVars>>

\* DocService.update called with a DocUpdate that may carry tags (no route of
\* server.ts passes tags)
CallDocServiceUpdate ==
    /\ app = "docs"
    /\ resp = Idle
    /\ \E id \in IdInputs, body \in {b \in Bodies : DecodeOk(b, FALSE)} :
         LET input == [id |-> id, label |-> {PgText(x) : x \in body.label},
                       data |-> body.data, tags |-> body.tags]
             r == DocService_update(store, input)
         IN Answer("update", "service", id, body,
                   [store |-> r.store, status |-> 0, outcome |-> r.outcome,
                    body |-> r.docs])
    /\ UNCHANGED <<app, nextId, clock, inflight, lastWrite, layerVars>>

ReqPostApiNodes ==
    /\ app = "nodes"
    /\ resp = Idle
    /\ nextId <= MaxDocs
    /\ \E body \in Bodies :
         Created(body, PostApiNodes(store, body, nextId, clock))

ReqGetApiNodes ==
    /\ app = "nodes"
    /\ resp = Idle
    /\ \E r \in GetApiNodes(store) : Answer("list", "http", 0, NoBody, r)
    /\ UNCHANGED <<app, nextId, clock, inflight, lastWrite, layerVars>>

ReqGetApiNodesId ==
    /\ app = "nodes"
    /\ resp = Idle
    /\ \E id \in IdInputs :
         Answer("get", "http", id, NoBody, GetApiNodesId(store, id))
    /\ UNCHANGED <<app, nextId, clock, inflight, lastWrite, layerVars>>

ReqPutApiNodesId ==
    /\ app = "nodes"
    /\ resp = Idle
    /\ \E id \in IdInputs, body \in Bodies :
         Answer("update", "http", id, body, PutApiNodesId(store, id, body))
    /\ UNCHANGED <<app, nextId, clock, inflight, lastWrite, layerVars>>

ReqDeleteApiNodesId ==
    /\ app = "nodes"
    /\ resp = Idle
    /\ \E id \in IdInputs :
         Answer("delete", "http", id, NoBody, DeleteApiNodesId(store, id))
    /\ UNCHANGED <<app, nextId, clock, inflight, lastWrite, layerVars>>

\* the client reads the response
Deliver ==
    /\ resp # Idle
    /\ resp' = Idle
    /\ before' = store
    /\ UNCHANGED <<app, store, nextId, clock, deleted, createdDoc, inflight,
                   lastWrite, layerVars>>

\* time passes between requests; only the order of the created_at stamps is
\* observable, so the clock moves on once a stored row carries its value
Tick ==
    /\ resp = Idle
    /\ clock < MaxClock
    /\ \E r \in store : r.created_at = clock
    /\ clock' = clock + 1
    /\ UNCHANGED <<app, store, nextId, resp, before, deleted, createdDoc,
                   inflight, lastWrite, layerVars>>

Next ==
    \/ ReqPostApiDocs
    \/ ReqGetApiDocs
    \/ ReqGetApiDocsId
    \/ ReqPutApiDocsId
    \/ ReqDeleteApiDocsId
    \/ CallDocServiceUpdate
    \/ ReqPostApiNodes
    \/ ReqGetApiNodes
    \/ ReqGetApiNodesId
    \/ ReqPutApiNodesId
    \/ ReqDeleteApiNodesId
    \/ Deliver
    \/ Tick

Spec == Init /\ [][Next]_vars

-----------------------------------------------------------------------------
(* Specification SpecSearch: documents are created, then searched.  The    *)
(* labels, tags and queries are chosen so that a query can occur in a      *)
(* label, in the data text or in a tag.                                    *)

\* largest limit a search request asks for
MaxLimit == 1

SearchLabelInputs == {{Str("a")}, {Str("x")}, {Str("_")}}
SearchTagInputs == {{}, {<<"Urgent">>}, {<<"_">>}}
\* the bodies of the creates: label "a" with data or a tag or neither, the
\* other labels alone
SearchBodies ==
    {b \in [label : SearchLabelInputs, data : DataInputs,
            tags : SearchTagInputs, malformed : {FALSE}] :
        /\ b.data = {} \/ b.tags = {}
        /\ b.label = {Str("a")} \/ (b.data = {} /\ b.tags = {})}
\* the query of a search: absent, or its characters
QueryInputs == {{}, {<<>>}, {<<" ">>}, {<<"A">>}, {<<"x">>}, {<<"_">>},
                {<<"U", "R">>}}
\* the tag of a findByTag
TagQueryInputs == {{}, {"urgent"}, {"Urgent"}, {"_"}}
LimitInputs == {{}} \cup {{n} : n \in 1..MaxLimit}
SearchRequest(query, tag, limit) ==
    [label |-> {}, data |-> {}, tags |-> {}, malformed |-> FALSE,
     query |-> query, tag |-> tag, limit |-> limit]

\* DocService.create called with a DocInput that may carry tags
CallDocServiceCreate ==
    /\ app = "docs"
    /\ resp = Idle
    /\ nextId <= MaxDocs
    /\ \E body \in SearchBodies :
         LET input == [label |-> PgText(CHOOSE x \in body.label : TRUE),
                       data |-> body.data, tags |-> body.tags]
             r == DocService_create(store, input, nextId, clock)
         IN Answer("create", "service", nextId, body,
                   [store |-> r.store, status |-> 0, outcome |-> r.outcome,
                    body |-> r.docs])
    /\ nextId' = nextId + 1
    /\ UNCHANGED <<app, clock, inflight, lastWrite, layerVars>>

ReqPostApiNodesTagged ==
    /\ app = "nodes"
    /\ resp = Idle
    /\ nextId <= MaxDocs
    /\ \E body \in SearchBodies :
         Created(body, PostApiNodes(store, body, nextId, clock))

ReqPostApiDocsSearch ==
    /\ app = "docs"
    /\ resp = Idle
    /\ \E query \in QueryInputs, limit \in LimitInputs :
         LET body == SearchRequest(query, {}, limit)
         IN \E r \in PostApiDocsSearch(store, body) :
                Answer("search", "http", 0, body, r)
    /\ UNCHANGED <<app, nextId, clock, inflight, lastWrite, layerVars>>

\* GET /api/nodes with a search or a tag parameter; a limit parameter may be
\* sent along
ReqGetApiNodesQuery ==
    /\ app = "nodes"
    /\ resp = Idle
    /\ \E search \in QueryInputs, tag \in TagQueryInputs, limit \in LimitInputs :
         /\ search # {} \/ tag # {}
         /\ tag # {} => (search = {} /\ limit = {})
         /\ \E r \in GetApiNodesQuery(store, search, tag) :
                Answer(IF tag # {} THEN "findByTag" ELSE "search", "http", 0,
                       SearchRequest(search, tag, limit), r)
    /\ UNCHANGED <<app, nextId, clock, inflight, lastWrite, layerVars>>

NextSearch ==
    \/ CallDocServiceCreate
    \/ ReqPostApiNodesTagged
    \/ ReqPostApiDocsSearch
    \/ ReqGetApiNodesQuery
    \/ Deliver
    \/ Tick

SpecSearch == Init /\ [][NextSearch]_vars

-----------------------------------------------------------------------------
(* Specification SpecConcurrent: requests overlap.  A handler is an async  *)
(* function that issues one SQL statement; the statement is atomic in the  *)
(* database, so requests interleave between the arrival of a request and   *)
(* the run of its statement.  resp and before record the statement that    *)
(* ran last.                                                               *)

\* number of requests that can be in flight together
MaxInflight == 2

ConcCreateBodies ==
    {[label |-> {Str("a")}, data |-> {}, tags |-> {}, malformed |-> FALSE]}
\* update bodies: a label alone, data alone
ConcUpdateBodies ==
    {[label |-> {Str("x")}, data |-> {}, tags |-> {}, malformed |-> FALSE],
     [label |-> {}, data |-> {ObjX}, tags |-> {}, malformed |-> FALSE]}

\* the requests a client can send now
ConcRequests ==
    {[op |-> "create", id |-> 0, req |-> b] : b \in ConcCreateBodies}
    \cup {[op |-> "update", id |-> i, req |-> b] :
            i \in 1..(nextId - 1), b \in ConcUpdateBodies}
    \cup {[op |-> "delete", id |-> i, req |-> NoBody] : i \in 1..(nextId - 1)}

\* a request arrives while others are still in flight
Receive ==
    /\ Cardinality(inflight) < MaxInflight
    /\ \E rq \in ConcRequests \ inflight :
         /\ rq.op = "create" => nextId <= MaxDocs
         /\ inflight' = inflight \cup {rq}
    /\ UNCHANGED <<app, store, nextId, clock, resp, before, deleted, createdDoc,
                   lastWrite, layerVars>>

\* the statement of a create in flight runs
ServeCreate ==
    \E rq \in inflight :
        /\ rq.op = "create"
        /\ nextId <= MaxDocs
        /\ Answer("create", "http", nextId, rq.req,
                  IF app = "docs"
                  THEN PostApiDocs(store, rq.req, nextId, clock)
                  ELSE PostApiNodes(store, rq.req, nextId, clock))
        /\ nextId' = nextId + 1
        /\ inflight' = inflight \ {rq}
        /\ UNCHANGED <<app, clock, lastWrite, layerVars>>

\* the statement of an update in flight runs; raced records that an update
\* of the document ran while another update of it was in flight
ServeUpdate ==
    \E rq \in inflight :
        /\ rq.op = "update"
        /\ LET r == IF app = "docs"
                    THEN PutApiDocsId(store, rq.id, rq.req)
                    ELSE PutApiNodesId(store, rq.id, rq.req)
           IN /\ Answer("update", "http", rq.id, rq.req, r)
              /\ lastWrite' =
                   IF r.status = 200
                   THEN [lastWrite EXCEPT ![rq.id] =
                           [body |-> r.body,
                            raced |-> \/ @.raced
                                      \/ \E x \in inflight \ {rq} :
                                            x.op = "update" /\ x.id = rq.id]]
                   ELSE lastWrite
        /\ inflight' = inflight \ {rq}
        /\ UNCHANGED <<app, nextId, clock, layerVars>>

\* the statement of a delete in flight runs
ServeDelete ==
    \E rq \in inflight :
        /\ rq.op = "delete"
        /\ Answer("delete", "http", rq.id, rq.req,
                  IF app = "docs"
                  THEN DeleteApiDocsId(store, rq.id)
                  ELSE DeleteApiNodesId(store, rq.id))
        /\ lastWrite' = [lastWrite EXCEPT ![rq.id] = NoWrite]
        /\ inflight' = inflight \ {rq}
        /\ UNCHANGED <<app, nextId, clock, layerVars>>

NextConcurrent ==
    \/ Receive
    \/ ServeCreate
    \/ ServeUpdate
    \/ ServeDelete

SpecConcurrent == Init /\ [][NextConcurrent]_vars

-----------------------------------------------------------------------------
(* Specification SpecRetry: one repository call at a time goes through the *)
(* Database layer (query / queryOne / execute), which retries a failed     *)
(* attempt.  An attempt can fail before its statement runs, fail on the    *)
(* way back after the statement ran, or be refused by the database.        *)

\* Effect.retry({ times: 2, schedule: Schedule.exponential(500) })
RetryTimes == 2
RetryBase == 500
\* Schedule.exponential(200).pipe(Schedule.intersect(Schedule.recurs(10)))
RecursTimes == 10
RecursBase == 200

\* number of retries the schedule allows
Recurs(sch) == IF sch = "recurs10" THEN RecursTimes ELSE RetryTimes
\* Schedule.exponential(base): the k-th delay is base * 2^k, k = 0, 1, ...
Exponential(sch, k) ==
    (IF sch = "recurs10" THEN RecursBase ELSE RetryBase) * (2 ^ k)

\* mutant: a new id is drawn for every attempt
CreateId_perAttempt(c) == c.id + c.attempts

\* const id = uuidv4() runs once, before db.queryOne and its retries
CreateId(c) == c.id

\* the statement of the call run on table S; the id column is a PRIMARY KEY
\* and a parameter the database cannot read is refused
Statement(S, c, now) ==
    IF c.bad THEN [store |-> S, error |-> "malformed", rows |-> {}]
    ELSE IF c.op = "create"
    THEN IF SelectById(S, CreateId(c)) # {}
         THEN [store |-> S, error |-> "unique_violation", rows |-> {}]
         ELSE LET r == NodeRepository_create(S, Str("a"), Obj0, <<>>,
                                             CreateId(c), now)
              IN [store |-> r.store, error |-> "none", rows |-> r.store \ S]
    ELSE IF c.op = "update"
    THEN LET r == NodeRepository_update(S, c.id, Str("x"), Obj0, <<>>)
         IN [store |-> r.store, error |-> "none",
             rows |-> SelectById(r.store, c.id)]
    ELSE LET r == NodeRepository_delete(S, c.id)
         IN [store |-> r.store, error |-> "none", rows |-> SelectById(S, c.id)]

\* the deployed db.ts: its store calls retry twice, or ten times
CreateDatabaseLayer ==
    /\ schedule = "unset"
    /\ schedule' \in {"times2", "recurs10"}
    /\ UNCHANGED <<crudVars, call, offRetry>>

\* NodeRepository.create / update / delete starts its store call; create
\* draws its id (uuidv4) before the first attempt
BeginCall ==
    /\ app = "nodes"
    /\ schedule # "unset"
    /\ call.phase = "idle"
    /\ \E op \in {"create", "update", "delete"}, bad \in BOOLEAN,
          id \in 0..(nextId - 1) :
         /\ op = "create" => (id = 0 /\ nextId <= MaxDocs)
         /\ bad => op # "delete"
         /\ call' = [NoCall EXCEPT !.phase = "attempt", !.op = op, !.bad = bad,
                                   !.id = IF op = "create" THEN nextId ELSE id]
         /\ nextId' = IF op = "create" THEN nextId + 1 ELSE nextId
    /\ before' = store
    /\ resp' = Idle
    /\ UNCHANGED <<app, store, clock, deleted, createdDoc, inflight, lastWrite,
                   schedule, offRetry>>

\* what can happen to one attempt on its way to the database and back
Fates == {"ok", "lostBefore", "lostAfter"}

\* Effect.tryPromise: getPool(), pool.query(sql, params); any rejection is
\* mapped to a DatabaseError and handed to Effect.retry, which asks the
\* schedule whether another attempt follows
Attempt ==
    /\ call.phase = "attempt"
    /\ \E fate \in Fates :
         LET r == IF fate = "lostBefore"
                  THEN [store |-> store, error |-> "connection", rows |-> {}]
                  ELSE Statement(store, call, clock)
             err == IF r.error # "none" THEN r.error
                    ELSE IF fate = "lostAfter" THEN "connection"
                    ELSE "none"
         IN /\ store' = r.store
            /\ call' = [call EXCEPT
                          !.attempts = @ + 1,
                          !.last = err,
                          !.rows = IF err = "none" THEN r.rows ELSE {},
                          !.rejected = @ \/ err \in {"malformed",
                                                      "unique_violation"},
                          !.phase = IF err = "none" THEN "done"
                                    ELSE IF call.attempts < Recurs(schedule)
                                    THEN "sleep"
                                    ELSE "done"]
    /\ UNCHANGED <<app, nextId, clock, resp, before, deleted, createdDoc,
                   inflight, lastWrite, schedule, offRetry>>

\* the delay of the schedule before the next attempt
Backoff ==
    /\ call.phase = "sleep"
    /\ call' = [call EXCEPT
                  !.slept = Append(@, Exponential(schedule, Len(@))),
                  !.phase = "attempt"]
    /\ UNCHANGED <<crudVars, schedule, offRetry>>

\* the repository function returns: a failed store call is a DatabaseError,
\* update and delete turn an empty RETURNING into NodeNotFound
Surface ==
    /\ call.phase = "done"
    /\ resp' = [Idle EXCEPT
                  !.op = call.op, !.via = "repo", !.id = call.id,
                  !.outcome = IF call.last # "none" THEN "DatabaseError"
                              ELSE IF call.op # "create" /\ call.rows = {}
                              THEN "NodeNotFound"
                              ELSE "ok"]
    /\ call' = [call EXCEPT !.phase = "idle"]
    /\ UNCHANGED <<app, store, nextId, clock, before, deleted, createdDoc,
                   inflight, lastWrite, schedule, offRetry>>

NextRetry ==
    \/ CreateDatabaseLayer
    \/ BeginCall
    \/ Attempt
    \/ Backoff
    \/ Surface

SpecRetry == Init /\ [][NextRetry]_vars

-----------------------------------------------------------------------------
(* Specification SpecPool: requests call getPool() of db.ts.  getPool is an *)
(* async function: a call runs until it awaits (the DNS lookup, the timer   *)
(* between lookups), and other calls run meanwhile.                         *)

\* resolveHostname(hostname, maxRetries = 5)
maxRetries == 5
\* const delay = Math.pow(2, i) * 200
LookupBase == 200

\* mutant: the delay grows linearly
LookupDelay_linear(i) == (i + 1) * LookupBase

LookupDelay(i) == (2 ^ i) * LookupBase

\* hosts of a DATABASE_URL: an IPv4 literal, localhost, a DNS name, or a
\* string new URL() rejects
HostnameInputs == {"ipv4", "localhost", "name", "invalid"}

\* the connection string is read from the environment
LoadConnectionString ==
    /\ hostname = "unset"
    /\ hostname' \in HostnameInputs
    /\ UNCHANGED <<pool, resolvedConnectionString, pools, getPoolCalls,
                   offPool>>

\* pool = new Pool({ connectionString: resolvedConnectionString, ... });
\* return pool -- by the call c, whose record is g, with connection string cs
NewPool(c, g, cs) ==
    /\ resolvedConnectionString' = cs
    /\ pools' = Append(pools, cs)
    /\ pool' = Len(pools) + 1
    /\ getPoolCalls' = [getPoolCalls EXCEPT
                          ![c] = [g EXCEPT !.pc = "returned",
                                           !.got = Len(pools) + 1]]

\* getPool(connectionString) from its call to its first await, or to its
\* return when it awaits nothing
GetPool(c) ==
    /\ hostname # "unset"
    /\ getPoolCalls[c].pc \in {"idle", "returned"}
    /\ IF pool # 0
       THEN /\ getPoolCalls' = [getPoolCalls EXCEPT
                                  ![c] = [NoGetPool EXCEPT !.pc = "returned",
                                                           !.got = pool]]
            /\ UNCHANGED <<pool, resolvedConnectionString, pools>>
       ELSE IF resolvedConnectionString = "null" /\ hostname = "name"
       THEN /\ getPoolCalls' = [getPoolCalls EXCEPT
                                  ![c] = [NoGetPool EXCEPT !.pc = "lookup"]]
            /\ UNCHANGED <<pool, resolvedConnectionString, pools>>
       ELSE NewPool(c, NoGetPool, IF resolvedConnectionString = "null"
                                  THEN "original"
                                  ELSE resolvedConnectionString)
    /\ UNCHANGED <<hostname, offPool>>

\* await lookupAsync(hostname, { family: 4 }) settles; on success getPool
\* goes on to its return, on the last failure resolveHostname throws and
\* getPool falls back to the connection string it was given
Lookup(c) ==
    /\ getPoolCalls[c].pc = "lookup"
    /\ \E found \in BOOLEAN :
         LET g == [getPoolCalls[c] EXCEPT
                     !.lookups = @ + 1,
                     !.failed = IF found THEN @ ELSE @ + 1]
         IN IF found
            THEN NewPool(c, g, "resolved")
            ELSE IF g.i = maxRetries - 1
            THEN NewPool(c, g, "original")
            ELSE /\ getPoolCalls' = [getPoolCalls EXCEPT
                                       ![c] = [g EXCEPT
                                                 !.pc = "wait",
                                                 !.waited = Append(@,
                                                     LookupDelay(g.i))]]
                 /\ UNCHANGED <<pool, resolvedConnectionString, pools>>
    /\ UNCHANGED <<hostname, offPool>>

\* await new Promise(resolve => setTimeout(resolve, delay)) settles; i++
Timer(c) ==
    /\ getPoolCalls[c].pc = "wait"
    /\ getPoolCalls' = [getPoolCalls EXCEPT ![c].pc = "lookup",
                                            ![c].i = @ + 1]
    /\ UNCHANGED <<hostname, pool, resolvedConnectionString, pools, offPool>>

NextPool ==
    \/ LoadConnectionString
    \/ \E c \in Callers : GetPool(c)
    \/ \E c \in Callers : Lookup(c)
    \/ \E c \in Callers : Timer(c)

SpecPool == Init /\ [][NextPool]_vars

-----------------------------------------------------------------------------
(* Specification SpecServer: the callback of http.createServer, step by     *)
(* step: route matching, the build of AppLive that Effect.provide runs for  *)
(* the request (DocServiceLive sets up the schema), the handler, and the    *)
(* two error handlers around it.                                            *)

\* res.writeHead(status, corsHeaders); res.end(JSON.stringify(data))
sendJson(res, status) ==
    [res EXCEPT !.writeHead = @ + 1, !.end = @ + 1, !.status = status]

\* what the callback can be called with: a preflight, a request no route
\* matches, or a request of one of the routes
RouteInputs == {"OPTIONS", "nomatch", "health", "getById", "create", "delete"}

\* the statements DocServiceLive runs before it returns the service
SchemaStatements == {"CREATE TABLE", "CREATE INDEX gin", "CREATE INDEX label"}

\* the query helper maps a rejected pool.query to a failure Error
StoreDown(S) == [store |-> S, status |-> 500, outcome |-> "Error", body |-> <<>>]

\* failures go to Effect.catchAll, a defect rejects the promise of runPromise
Failures == {"ParseError", "Error"}

\* mutant: the handler answers before the step that fails
HandlerSends_early(r) == TRUE

\* sendJson is the last statement of every handler: it runs when no step
\* before it failed or died
HandlerSends(r) == r.outcome \notin Failures \cup {"defect"}

\* the synchronous part of the callback
HttpCallback ==
    /\ app = "docs"
    /\ http.pc \in {"idle", "done"}
    /\ \E route \in RouteInputs, down \in BOOLEAN :
         LET req == [NoHttp EXCEPT !.route = route, !.down = down]
         IN http' = IF route = "OPTIONS"
                    THEN [req EXCEPT !.pc = "done", !.writeHead = 1, !.end = 1,
                                     !.status = 204]
                    ELSE IF route = "nomatch"
                    THEN [sendJson(req, 404) EXCEPT !.pc = "done"]
                    ELSE [req EXCEPT !.pc = "provide"]
    /\ UNCHANGED <<crudVars, offServer>>

\* Effect.provide(AppLive): every schema statement is followed by
\* Effect.catchAll(() => Effect.succeed([])), so the layer is built whatever
\* the statements answer
ProvideAppLive ==
    /\ http.pc = "provide"
    /\ http' = [http EXCEPT
                  !.pc = "handler",
                  !.swallowed = IF http.down THEN SchemaStatements ELSE {},
                  !.layer = "built"]
    /\ UNCHANGED <<crudVars, offServer>>

\* the handler of the route runs; then catchAll, then the catch of runPromise
Handled(r) ==
    LET sent == IF HandlerSends(r) THEN sendJson(http, r.status) ELSE http
        caught == IF r.outcome \in Failures THEN sendJson(sent, 500) ELSE sent
        fatal == IF r.outcome = "defect" THEN sendJson(caught, 500) ELSE caught
    IN /\ http' = [fatal EXCEPT !.pc = "done", !.outcome = r.outcome]
       /\ store' = r.store

RunHandler ==
    /\ http.pc = "handler"
    /\ \/ /\ http.route = "health"
          /\ Handled([store |-> store, status |-> 200, outcome |-> "ok",
                      body |-> <<>>])
          /\ UNCHANGED nextId
       \/ /\ http.route = "getById"
          /\ \E id \in IdInputs :
               Handled(IF http.down THEN StoreDown(store)
                       ELSE GetApiDocsId(store, id))
          /\ UNCHANGED nextId
       \/ /\ http.route = "delete"
          /\ \E id \in IdInputs :
               Handled(IF http.down THEN StoreDown(store)
                       ELSE DeleteApiDocsId(store, id))
          /\ UNCHANGED nextId
       \/ /\ http.route = "create"
          /\ nextId <= MaxDocs
          /\ \E body \in DocBodies :
               LET r == PostApiDocs(store, body, nextId, clock)
               IN /\ Handled(IF http.down /\ HandlerSends(r)
                             THEN StoreDown(store) ELSE r)
                  /\ nextId' = IF http.down \/ r.store = store
                               THEN nextId ELSE nextId + 1
    /\ UNCHANGED <<app, clock, resp, before, deleted, createdDoc, inflight,
                   lastWrite, offServer>>

NextServer ==
    \/ HttpCallback
    \/ ProvideAppLive
    \/ RunHandler

SpecServer == Init /\ [][NextServer]_vars

-----------------------------------------------------------------------------
(* Specification SpecFrontend: the App component.  Every load and search   *)
(* is a fetch whose response arrives later; responses arrive in any order. *)

\* requests the component issues in one run
MaxRequests == 3

\* what the user can type into the search box
SearchBoxInputs == {<<>>, <<" ">>, <<"a">>}

\* const data = await api.getDocs() / api.searchDocs(searchQuery, searchMode)
\* up to the await: the request leaves
Issue(app0, api, query) ==
    LET r == [n |-> app0.issued + 1, api |-> api, query |-> query]
    IN [app0 EXCEPT !.issued = @ + 1, !.latest = r, !.pending = @ \cup {r}]

\* after the await: setDocs(data), or the toast of the catch block
Arrived(app0, r, ok) ==
    [app0 EXCEPT !.pending = @ \ {r},
                 !.failed = IF ok THEN @ ELSE @ \cup {r.n},
                 !.docs = IF ok THEN r ELSE @]

\* first render: useEffect(() => { loadDocs() }) and the debounce effect
Mount ==
    /\ ~ui.mounted
    /\ ui' = [Issue(ui, "getDocs", <<>>) EXCEPT !.mounted = TRUE,
                                               !.timer = TRUE]
    /\ UNCHANGED offUi

\* setSearchQuery: the debounce effect clears its timer and sets a new one
SetSearchQuery ==
    /\ ui.mounted
    /\ \E q \in SearchBoxInputs \ {ui.searchQuery} :
         ui' = [ui EXCEPT !.searchQuery = q, !.timer = TRUE]
    /\ UNCHANGED offUi

\* the 300 ms timer fires: handleSearch
handleSearch ==
    /\ ui.timer
    /\ ui.issued < MaxRequests
    /\ ui' = [(IF Trim(ui.searchQuery) = <<>>
               THEN Issue(ui, "getDocs", <<>>)
               ELSE Issue(ui, "searchDocs", ui.searchQuery))
              EXCEPT !.timer = FALSE]
    /\ UNCHANGED offUi

\* handleSubmit / handleDelete after their own request succeeded: loadDocs()
handleSubmit ==
    /\ ui.mounted
    /\ ui.issued < MaxRequests
    /\ ui' = Issue(ui, "getDocs", <<>>)
    /\ UNCHANGED offUi

\* a response, or a network error, arrives for one of the requests
Response ==
    /\ \E r \in ui.pending, ok \in BOOLEAN : ui' = Arrived(ui, r, ok)
    /\ UNCHANGED offUi

NextFrontend ==
    \/ Mount
    \/ SetSearchQuery
    \/ handleSearch
    \/ handleSubmit
    \/ Response

SpecFrontend == Init /\ [][NextFrontend]_vars

-----------------------------------------------------------------------------
(* Properties *)

Exists(S, id) == \E r \in S : r.id = id
NotFoundOutcome == resp.outcome \in {"null", "NodeNotFound"}
ClientError == resp.status \in 400..499
AllOmitted == resp.req.label = {} /\ resp.req.data = {} /\ resp.req.tags = {}
\* the document a response carries for a stored row
Rendered(r) == IF app = "docs"
               THEN (IF resp.via = "http" THEN docToJson(rowToDoc(r)) ELSE rowToDoc(r))
               ELSE rowToNode(r)

\* the create response of id is still on record
Untouched(id) == id \in DOMAIN createdDoc /\ createdDoc[id] # <<>>

\* C1: a get of the document a create returned, with no update or delete
\* addressed to it since, answers 200 with a document equal to the one the
\* create returned (id, label, data, tags, created_at).
Inv_C1_GetReturnsCreated ==
    (resp.op = "get" /\ Untouched(resp.id))
        => /\ resp.status = 200
           /\ resp.outcome = "ok"
           /\ resp.body = createdDoc[resp.id]

Wit_C1_GetAfterCreate ==
    /\ resp.op = "get"
    /\ resp.id = 1
    /\ Untouched(1)
    /\ resp.body = createdDoc[1]
    /\ Cardinality(store) = 2

\* C2: an update of an existing document leaves every field the request
\* omits at its stored value, on every update path (PUT routes included).
Claim_C2_OmittedFieldsKept ==
    resp.op = "update" =>
        \A r \in before, r2 \in store :
            (r.id = resp.id /\ r2.id = resp.id) =>
                /\ resp.req.label = {} => r2.label = r.label
                /\ resp.req.data = {} => r2.data = r.data
                /\ resp.req.tags = {} => r2.tags = r.tags

Inv_C4_DeletedStaysGone ==
    (resp.op = "get" /\ resp.id \in deleted)
        => (NotFoundOutcome /\ resp.body = <<>> /\ resp.status # 200)

Wit_C4_GetAfterDelete ==
    /\ resp.op = "get"
    /\ resp.id \in deleted
    /\ NotFoundOutcome
    /\ store # {}

\* C5: a delete of an id that is not stored fails with NotFound, never
\* reports success, and leaves the table as it was.
Claim_C5_DeleteAbsentFails ==
    (resp.op = "delete" /\ ~Exists(before, resp.id))
        => (NotFoundOutcome /\ resp.status \notin {200, 204} /\ store = before)

\* C6: a get of an id that is not stored fails with NotFound and is
\* answered 404, never a success and never a 5xx.
Claim_C6_GetAbsentIs404 ==
    (resp.op = "get" /\ ~Exists(before, resp.id))
        => (NotFoundOutcome /\ resp.status = 404)

\* C7: a create with an empty label is rejected as a validation error and
\* stores nothing; no stored document has an empty label.
Claim_C7_NoEmptyLabel ==
    /\ \A r \in store : r.label # ""
    /\ (resp.op = "create" /\ resp.req.label = {Str("")})
           => (ClientError /\ store = before)

\* C8: an update is rejected as a validation error exactly when its label
\* is provided and empty; the rejection leaves the table as it was, and an
\* update that omits the label is not rejected for that.
Claim_C8_EmptyLabelRejected ==
    (resp.op = "update" /\ resp.via = "http" /\ ~resp.req.malformed
        /\ resp.req.label \in {{}, {Str("")}, {Str("a")}})
        => /\ (resp.status = 400) <=> (resp.req.label = {Str("")})
           /\ resp.req.label = {Str("")} => store = before

\* input the schemas of Doc.ts reject, or a body that is not JSON
InvalidInput ==
    \/ resp.req.malformed
    \/ resp.op = "create" /\ resp.req.label = {}
    \/ resp.op \in {"create", "update"} /\ \E x \in resp.req.label : x.t # "string"

\* C9: a request with invalid input (malformed JSON, missing or wrongly
\* typed label) is answered with a 4xx status, not a 5xx, and changes nothing.
Claim_C9_InvalidInputIs4xx ==
    (resp.via = "http" /\ InvalidInput) => (ClientError /\ store = before)

\* C10: list returns every stored document exactly once, newest created_at
\* first.
Inv_C10_ListAllNewestFirst ==
    resp.op = "list" =>
        /\ Len(resp.body) = Cardinality(store)
        /\ \A r \in store : \E i \in 1..Len(resp.body) : resp.body[i] = Rendered(r)
        /\ \A i, j \in 1..Len(resp.body) :
               i # j => resp.body[i].id # resp.body[j].id
        /\ \A i, j \in 1..Len(resp.body) :
               i < j => resp.body[i].created_at >= resp.body[j].created_at

Wit_C10_ListTwoStamps ==
    /\ resp.op = "list"
    /\ Len(resp.body) = 2
    /\ resp.body[1].created_at > resp.body[2].created_at

\* C16: in every reachable state the tags of every stored document are all
\* lowercase and hold no tag twice, whatever was passed to create and update.
Claim_C16_TagsNormalized ==
    \A r \in store :
        /\ \A i \in 1..Len(r.tags) : r.tags[i] = toLowerCase(r.tags[i])
        /\ \A i, j \in 1..Len(r.tags) : i # j => r.tags[i] # r.tags[j]

Inv_C18_UpdateKeepsIdCreatedAt ==
    /\ \A r \in before, r2 \in store :
           r.id = r2.id => r2.created_at = r.created_at
    /\ resp.op = "update" =>
           /\ {r.id : r \in store} = {r.id : r \in before}
           /\ \A i \in 1..Len(resp.body) :
                  /\ resp.body[i].id = resp.id
                  /\ \E r \in before : r.id = resp.id
                         /\ r.created_at = resp.body[i].created_at

Wit_C18_FullUpdateLater ==
    /\ resp.op = "update"
    /\ resp.req.label # {} /\ resp.req.data # {}
    /\ store # before
    /\ clock = 1
    /\ \E r \in store : r.id = resp.id /\ r.created_at = 0
    /\ Len(resp.body) = 1

\* the limit in force for a search request: the one given, or 50
AskedLimit == IF resp.req.limit = {} THEN 50 ELSE CHOOSE n \in resp.req.limit : TRUE
\* what list() answers on the table the request met
ListBodies == IF app = "docs" THEN {r.body : r \in GetApiDocs(before)}
              ELSE {r.body : r \in GetApiNodes(before)}

\* C11: a search whose query is the empty string answers with what list()
\* answers, in the same order, cut to the first limit documents (50 when no
\* limit is given).
Claim_C11_EmptySearchIsList ==
    (resp.op = "search" /\ resp.req.query = {<<>>})
        => /\ resp.status = 200
           /\ \E l \in ListBodies : resp.body = Limit(l, AskedLimit)

\* q occurs in t as a contiguous run of characters
Occurs(q, t) ==
    \E i \in 0..(Len(t) - Len(q)) : SubSeq(t, i + 1, i + Len(q)) = q
\* q, compared case-insensitively, occurs in the label of the row
InLabel(q, r) == Occurs(LowerText(q), LowerText(Chars(r.label)))
\* ... or in its data text, or (DocService with tags) in one of its tags
InDataOrTags(q, r) ==
    \/ Occurs(LowerText(q), LowerText(Chars(r.data)))
    \/ /\ app = "docs"
       /\ \E i \in 1..Len(r.tags) :
              Occurs(LowerText(q), LowerText(Chars(r.tags[i])))
\* the query of the search request on record
TheQuery == CHOOSE q \in resp.req.query : TRUE
NonEmptySearch ==
    resp.op = "search" /\ resp.req.query # {} /\ resp.req.query # {<<>>}
\* the stored row a returned document stands for
RowOf(doc) == CHOOSE r \in before : r.id = doc.id

\* C12: for a non-empty query q, whatever its characters, the documents a
\* search returns all contain q (case-insensitively) in their label, data
\* text or tags, and unless the result is cut at the limit every stored
\* document that contains q is returned; a query that occurs nowhere returns
\* nothing.
Claim_C12_SearchIsSubstringMatch ==
    NonEmptySearch =>
        /\ resp.status = 200
        /\ \A i \in 1..Len(resp.body) :
               /\ Exists(before, resp.body[i].id)
               /\ \/ InLabel(TheQuery, RowOf(resp.body[i]))
                  \/ InDataOrTags(TheQuery, RowOf(resp.body[i]))
        /\ Len(resp.body) < AskedLimit =>
               \A r \in before :
                   (InLabel(TheQuery, r) \/ InDataOrTags(TheQuery, r))
                       => \E i \in 1..Len(resp.body) : resp.body[i].id = r.id

\* the document matches q through its label / only through data or tags
LabelGroup(doc) == InLabel(TheQuery, RowOf(doc))
OtherGroup(doc) ==
    ~InLabel(TheQuery, RowOf(doc)) /\ InDataOrTags(TheQuery, RowOf(doc))

\* C13: in the sequence a search returns, no document that matches q only
\* through data or tags comes before one whose label matches q, and within
\* each of the two groups the documents are ordered newest-created first.
Claim_C13_LabelMatchesFirst ==
    (NonEmptySearch /\ resp.status = 200) =>
        \A i, j \in 1..Len(resp.body) :
            i < j =>
                /\ ~(OtherGroup(resp.body[i]) /\ LabelGroup(resp.body[j]))
                /\ (LabelGroup(resp.body[i]) /\ LabelGroup(resp.body[j]))
                       => resp.body[i].created_at >= resp.body[j].created_at
                /\ (OtherGroup(resp.body[i]) /\ OtherGroup(resp.body[j]))
                       => resp.body[i].created_at >= resp.body[j].created_at

\* the full ordered match list: what the same search answers when no limit
\* is sent
FullBodies ==
    IF app = "docs"
    THEN {r.body : r \in PostApiDocsSearch(before, [resp.req EXCEPT !.limit = {}])}
    ELSE {r.body : r \in GetApiNodesQuery(before, resp.req.query, resp.req.tag)}

\* C14: a search never returns more than limit documents, never more than 50
\* when no limit is given, and what it returns is the first limit documents
\* of the full ordered match list.
Claim_C14_AtMostLimit ==
    (resp.op = "search" /\ resp.status = 200) =>
        /\ Len(resp.body) <= AskedLimit
        /\ \E full \in FullBodies : resp.body = Limit(full, AskedLimit)

\* the tag of the findByTag request on record
TheTag == CHOOSE t \in resp.req.tag : TRUE
HasTag(r, tag) ==
    \E i \in 1..Len(r.tags) : toLowerCase(r.tags[i]) = toLowerCase(tag)

\* C15: findByTag(tag) returns exactly the stored documents that have a tag
\* equal to tag when compared case-insensitively, each once, newest-created
\* first; a document created with tags ["Urgent"] is returned by
\* findByTag("urgent").
Claim_C15_FindByTag ==
    resp.op = "findByTag" =>
        /\ resp.status = 200
        /\ {resp.body[i].id : i \in 1..Len(resp.body)}
               = {r.id : r \in {x \in before : HasTag(x, TheTag)}}
        /\ \A i, j \in 1..Len(resp.body) :
               i < j => /\ resp.body[i].id # resp.body[j].id
                        /\ resp.body[i].created_at >= resp.body[j].created_at

\* the document an HTTP response carries for a stored row
HttpDoc(r) == IF app = "docs" THEN docToJson(rowToDoc(r)) ELSE rowToNode(r)
\* an update body the route does not reject for itself
ValidUpdate(req) == IF app = "docs" THEN ~req.malformed /\ DecodeOk(req, FALSE)
                    ELSE Truthy(req.label)

Inv_C20_OtherDocsUntouched ==
    /\ \A r \in before : r.id # resp.id => r \in store
    /\ \A r \in store : r.id # resp.id => r \in before
    /\ resp.op = "create" => resp.status = 201
    /\ (resp.op = "delete" /\ Exists(before, resp.id))
           => resp.status \in {200, 204}
    /\ (resp.op = "update" /\ Exists(before, resp.id) /\ ValidUpdate(resp.req))
           => resp.status = 200

Wit_C20_OverlapOnTwoDocs ==
    /\ resp.op \in {"update", "delete"}
    /\ resp.id = 1
    /\ store # before
    /\ lastWrite[2].body # <<>>
    /\ \E rq \in inflight : rq.id = 2 /\ rq.op \in {"update", "delete"}

-----------------------------------------------------------------------------
(* Properties of SpecRetry *)

IsPrefix(p, q) == Len(p) <= Len(q) /\ \A i \in 1..Len(p) : p[i] = q[i]
NonTransient == {"malformed", "unique_violation"}
Surfaced == resp.via = "repo" /\ call.phase = "idle"

\* C21: a store call is attempted at most 3 times, waiting 500 ms and then
\* 1000 ms between attempts; it ends at its first successful attempt, and a
\* DatabaseError is surfaced only after the third attempt failed.
Claim_C21_ThreeAttempts ==
    /\ call.attempts <= 3
    /\ IsPrefix(call.slept, <<500, 1000>>)
    /\ (call.attempts > 0 /\ call.last = "none")
           => call.phase \in {"idle", "done"}
    /\ (Surfaced /\ resp.outcome = "DatabaseError") => call.attempts = 3

\* C22: after a failure that is not transient (a constraint violation, a
\* malformed parameter) the statement is not attempted again: the call is
\* over, and a call with a malformed parameter is attempted exactly once.
Claim_C22_NonTransientNotRetried ==
    /\ call.last \in NonTransient => call.phase \in {"idle", "done"}
    /\ call.bad => call.attempts <= 1

\* C26: one create call inserts at most one document, whatever the number of
\* attempts of its INSERT, and that document carries the id drawn before the
\* first attempt.
Inv_C26_CreateInsertsAtMostOne ==
    call.op = "create" =>
        /\ Cardinality(store \ before) <= 1
        /\ \A r \in store \ before : r.id = call.id

\* a create whose INSERT took effect, failed on the way back and was run again
Wit_C26_InsertRetriedAfterEffect ==
    /\ call.op = "create"
    /\ call.attempts >= 2
    /\ call.last = "unique_violation"
    /\ Cardinality(store \ before) = 1

\* C27: when create, update or delete surfaces an error the table is as the
\* call found it, and a delete of a document that was stored when the call
\* began does not answer NodeNotFound.
Claim_C27_ErrorMeansNoEffect ==
    Surfaced =>
        /\ resp.outcome \in {"DatabaseError", "NodeNotFound"} => store = before
        /\ (resp.op = "delete" /\ SelectById(before, resp.id) # {})
               => resp.outcome # "NodeNotFound"

-----------------------------------------------------------------------------
(* Properties of SpecPool *)

Returned(c) == getPoolCalls[c].pc = "returned"

\* C24: at most one Pool is ever constructed, and every getPool() call that
\* has returned was given that one Pool, also when several first calls
\* overlap while the hostname is being resolved.
Claim_C24_OnePool ==
    /\ Len(pools) <= 1
    /\ \A c \in Callers : Returned(c) => getPoolCalls[c].got = pool

\* C25: a getPool() call makes at most 5 lookups; after its i-th failed
\* lookup (i from 0) it waits 200 * 2^i ms, and nothing after the fifth;
\* when all five fail it still returns a Pool, one built on the connection
\* string it was given; an IPv4 literal or localhost is never looked up.
Inv_C25_BoundedLookups ==
    \A c \in Callers :
        LET g == getPoolCalls[c]
        IN /\ g.lookups <= 5
           /\ g.failed <= g.lookups
           /\ IsPrefix(g.waited, <<200, 400, 800, 1600>>)
           /\ Len(g.waited) = IF g.failed = 5 THEN 4 ELSE g.failed
           /\ hostname \in {"ipv4", "localhost"} => g.lookups = 0
           /\ (g.failed = 5) =>
                 /\ Returned(c)
                 /\ g.got \in 1..Len(pools)
                 /\ pools[g.got] = "original"

\* a call whose five lookups all failed has returned
Wit_C25_AllLookupsFailed ==
    \E c \in Callers :
        /\ Returned(c)
        /\ getPoolCalls[c].failed = 5
        /\ getPoolCalls[c].waited = <<200, 400, 800, 1600>>

-----------------------------------------------------------------------------
(* Properties of SpecServer *)

\* C23: a failure of a schema-setup statement other than 'already exists'
\* is surfaced: the service is not built as if the statement had succeeded.
Claim_C23_SetupFailureSurfaced ==
    http.layer = "built" => http.swallowed = {}

\* C28: a request gets exactly one response: writeHead and end are called
\* at most once each, and once each when the request has been handled, on
\* every path (preflight, no route, handler success, failure, defect).
Inv_C28_OneResponse ==
    /\ http.writeHead <= 1
    /\ http.end <= 1
    /\ http.pc = "done" => (http.writeHead = 1 /\ http.end = 1)
    /\ http.pc \in {"provide", "handler"} => http.writeHead = 0

\* a request whose handler died has been answered by the catch of runPromise
Wit_C28_DefectAnswered ==
    /\ http.pc = "done"
    /\ http.outcome = "defect"
    /\ http.status = 500

-----------------------------------------------------------------------------
(* Properties of SpecFrontend *)

\* C29: when no request is in flight and the most recently issued load or
\* search was answered, the list displayed is a response to the query of
\* that request, in whatever order the responses arrived.
Claim_C29_LatestResponseShown ==
    (ui.pending = {} /\ ui.issued > 0 /\ ui.issued \notin ui.failed)
        => (ui.docs.api = ui.latest.api /\ ui.docs.query = ui.latest.query)

=============================================================================
